---- MODULE Spec2Model ----
(***************************************************************************)
(* The normalization step of fbsts (scripts/normalize_epl_fbref.py): main  *)
(* reads the two raw FBref tables, prepares them, derives the matches,     *)
(* teams, team_match_stats, players and player_match_stats frames and      *)
(* appends each of them to its output table.                               *)
(*                                                                         *)
(* A DataFrame is a record [cols, rows]: the set of its column names and   *)
(* the sequence of its rows.  A text value is a string, Null standing for  *)
(* None/NaN; a value of a numeric source column is a cell (see NaCell).    *)
(* The values of date, league, season and result are not modelled, only    *)
(* the presence of their columns; of the four player statistics, which     *)
(* the code derives by one and the same expression, minutes is modelled.   *)
(***************************************************************************)
EXTENDS Integers, Sequences, FiniteSets, TLC

VARIABLES
    fbref_team_match_schedule,   \* raw table RAW_TEAM_SCHEDULE
    fbref_player_match_summary,  \* raw table RAW_PLAYER_SUMMARY
    pc,                          \* position of main
    error,                       \* the exception that ended main, "" for none
    schedule, player_summary,    \* the frames main read
    fbref_map,
    schedule_prepped, player_prepped,
    matches, teams, team_match_stats, players, opponent_df, player_match_stats,
    db,                          \* the five output tables
    written,                     \* output tables the current run has appended to
    runs                         \* runs of main that completed

vars == <<fbref_team_match_schedule, fbref_player_match_summary, pc, error, schedule,
          player_summary, fbref_map, schedule_prepped, player_prepped, matches,
          teams, team_match_stats, players, opponent_df, player_match_stats,
          db, written, runs>>

-----------------------------------------------------------------------------
(* Bounds of the model *)

MaxMissing == 1       \* required schedule columns a raw schedule may lack
MaxSchedRows == 2     \* rows of a raw schedule
MaxPlayerRows == 1    \* rows of a raw player summary
MaxRuns == 2          \* runs of main against the same raw tables

-----------------------------------------------------------------------------
(* Values *)

Null == "<NA>"

NaCell == [kind |-> "null", n |-> 0, frac |-> 0, chars |-> <<>>]
IntCell(n) == [kind |-> "int", n |-> n, frac |-> 0, chars |-> <<>>]
\* the float n.frac (frac: the digits after the point, read as a number)
FloatCell(n, f) == [kind |-> "float", n |-> n, frac |-> f, chars |-> <<>>]
StrCell(cs) == [kind |-> "str", n |-> 0, frac |-> 0, chars |-> cs]

TEAM_NAME_FIXUPS ==
    [k \in {"Newcastle Utd", "Nott'ham Forest", "Tottenham", "West Ham", "Manchester Utd"} |->
        CASE k = "Newcastle Utd" -> "Newcastle United"
          [] k = "Nott'ham Forest" -> "Nottingham Forest"
          [] k = "Tottenham" -> "Tottenham Hotspur"
          [] k = "West Ham" -> "West Ham United"
          [] k = "Manchester Utd" -> "Manchester United"]

\* Python's order of the strings of the model (sorted(), groupby's sorted keys)
StringOrder ==
    <<"Arsenal", "Manchester United", "Manchester Utd", "Newcastle United",
      "Newcastle Utd", "Nott'ham Forest", "Nottingham Forest", "Tottenham",
      "Tottenham Hotspur", "West Ham", "West Ham United", "X", "Y",
      "f1", "f2", "g1", "g2">>

-----------------------------------------------------------------------------
(* Sequences *)

SeqMap(f(_), s) == [i \in 1..Len(s) |-> f(s[i])]

Range(s) == {s[i] : i \in 1..Len(s)}

\* the rows of s at the indices in keep, in s's order
SelectIdx(s, keep) ==
    LET F[i \in 0..Len(s)] ==
            IF i = 0 THEN <<>>
            ELSE IF i \in keep THEN Append(F[i - 1], s[i]) ELSE F[i - 1]
    IN  F[Len(s)]

\* DataFrame.drop_duplicates(subset=key), keep="first"
DropDuplicates(s, key(_)) ==
    SelectIdx(s, {i \in 1..Len(s) : \A j \in 1..(i - 1) : key(s[j]) # key(s[i])})

\* sorted(S)
Sorted(S) == SelectSeq(StringOrder, LAMBDA x : x \in S)

\* left.merge(right, how="left") on the keys match compares: the rows of left in
\* order, each once per matching row of right, or once with fill when none matches
LeftMerge(left, right, match(_, _), combine(_, _), fill(_)) ==
    LET hits(l) == SelectSeq(right, LAMBDA r : match(l, r))
        out(l) == IF hits(l) = <<>> THEN <<fill(l)>>
                  ELSE SeqMap(LAMBDA r : combine(l, r), hits(l))
        F[i \in 0..Len(left)] == IF i = 0 THEN <<>> ELSE F[i - 1] \o out(left[i])
    IN  F[Len(left)]

-----------------------------------------------------------------------------
(* _first_existing_column, _coerce_int, _apply_team_name_fixes *)

NoColumn == "<None>"

RECURSIVE _first_existing_column(_, _)
_first_existing_column(cols, candidates) ==
    IF candidates = <<>> THEN NoColumn
    ELSE IF Head(candidates) \in cols THEN Head(candidates)
    ELSE _first_existing_column(cols, Tail(candidates))

DigitValue(c) ==
    CASE c = "0" -> 0 [] c = "1" -> 1 [] c = "2" -> 2 [] c = "3" -> 3 [] c = "4" -> 4
      [] c = "5" -> 5 [] c = "6" -> 6 [] c = "7" -> 7 [] c = "8" -> 8 [] c = "9" -> 9
      [] OTHER -> -1

\* the number a non-empty run of digits spells, -1 for anything else
RECURSIVE ParseDigits(_, _)
ParseDigits(cs, acc) ==
    IF cs = <<>> THEN acc
    ELSE IF DigitValue(Head(cs)) < 0 THEN -1
    ELSE ParseDigits(Tail(cs), acc * 10 + DigitValue(Head(cs)))

Digits(cs) == IF cs = <<>> THEN -1 ELSE ParseDigits(cs, 0)

NaN == [nan |-> TRUE, n |-> 0, frac |-> 0]
Number(n, f) == [nan |-> FALSE, n |-> n, frac |-> f]

\* pd.to_numeric(errors="coerce") of a string of signs, digits and points: an
\* integer, or a float with digits on at least one side of its point
ParseNumber(cs) ==
    LET neg == cs # <<>> /\ Head(cs) = "-"
        body == IF cs # <<>> /\ Head(cs) \in {"-", "+"} THEN Tail(cs) ELSE cs
        dots == {i \in 1..Len(body) : body[i] = "."}
    IN  IF dots = {}
        THEN IF Digits(body) < 0 THEN NaN
             ELSE Number(IF neg THEN -Digits(body) ELSE Digits(body), 0)
        ELSE LET d == CHOOSE i \in dots : \A j \in dots : i <= j
                 before == SubSeq(body, 1, d - 1)
                 after == SubSeq(body, d + 1, Len(body))
                 whole == IF before = <<>> THEN 0 ELSE Digits(before)
                 part == IF after = <<>> THEN 0 ELSE Digits(after)
             IN  IF whole < 0 \/ part < 0 \/ (before = <<>> /\ after = <<>>) THEN NaN
                 ELSE Number(IF neg THEN -whole ELSE whole, part)

\* pd.to_numeric(errors="coerce") of one value of a series
ToNumeric(cell) ==
    CASE cell.kind = "null" -> NaN
      [] cell.kind = "int" -> Number(cell.n, 0)
      [] cell.kind = "float" -> Number(cell.n, cell.frac)
      [] cell.kind = "str" -> ParseNumber(cell.chars)

\* .astype("Int64") of one value: NaN becomes pd.NA
AsInt64(x) == IF x.nan THEN NaCell ELSE IntCell(x.n)

\* _coerce_int: astype("Int64") raises TypeError ("cannot safely cast
\* non-equivalent float64 to int64") when a value of the series is not integral
_coerce_int(series) ==
    LET numeric == SeqMap(ToNumeric, series)
    IN  IF \E i \in 1..Len(numeric) : ~numeric[i].nan /\ numeric[i].frac # 0
        THEN [raised |-> TRUE, values |-> <<>>]
        ELSE [raised |-> FALSE, values |-> SeqMap(AsInt64, numeric)]

\* Series.replace(TEAM_NAME_FIXUPS) of one value
Replace(v) == IF v \in DOMAIN TEAM_NAME_FIXUPS THEN TEAM_NAME_FIXUPS[v] ELSE v

_apply_team_name_fixes(df, columns) ==
    [df EXCEPT !.rows =
        SeqMap(LAMBDA r : [c \in DOMAIN r |->
                              IF c \in columns /\ c \in df.cols THEN Replace(r[c]) ELSE r[c]],
               df.rows)]

-----------------------------------------------------------------------------
(* Frames *)

EmptyFrame == [cols |-> {}, rows |-> <<>>]
None == [none |-> TRUE, rows |-> <<>>]

\* the result of a step of main: it returned value, raised SystemExit (exit) or
\* raised another exception (raised)
Returned(v) == [exit |-> FALSE, raised |-> FALSE, error |-> "", value |-> v]
SystemExit(message) == [exit |-> TRUE, raised |-> FALSE, error |-> message, value |-> <<>>]
Raised(exception) == [exit |-> FALSE, raised |-> TRUE, error |-> exception, value |-> <<>>]

\* lines 42-47 and 56-61: "game" becomes "game_id", replacing a game_id column
RenameGame(df) ==
    IF "game" \in df.cols
    THEN [cols |-> (df.cols \ {"game"}) \cup {"game_id"},
          rows |-> SeqMap(LAMBDA r : [c \in (DOMAIN r \ {"game"}) \cup {"game_id"} |->
                                         IF c = "game_id" THEN r.game ELSE r[c]],
                          df.rows)]
    ELSE df

\* _prepare_schedule fixing the team column alone
PrepareScheduleTeamOnly(df) ==
    IF "game" \notin df.cols /\ "game_id" \notin df.cols
    THEN SystemExit("Schedule table missing game/game_id column.")
    ELSE Returned(_apply_team_name_fixes(RenameGame(df), {"team"}))

_prepare_schedule(df) ==
    IF "game" \notin df.cols /\ "game_id" \notin df.cols
    THEN SystemExit("Schedule table missing game/game_id column.")
    ELSE Returned(_apply_team_name_fixes(RenameGame(df), {"team", "opponent"}))

_prepare_player_summary(df) ==
    IF "game" \notin df.cols /\ "game_id" \notin df.cols
    THEN SystemExit("Player summary missing game/game_id column.")
    ELSE Returned(_apply_team_name_fixes(RenameGame(df), {"team"}))

\* lines 198-207 without groupby("game").first(): a game keeps each of its ids
BuildFbrefMapAllIds(ps) ==
    IF "game" \in ps.cols /\ "game_id" \in ps.cols
    THEN LET pairs == SeqMap(LAMBDA r : [game |-> r.game, game_id |-> r.game_id], ps.rows)
             nonnull == SelectSeq(pairs, LAMBDA p : p.game # Null /\ p.game_id # Null)
             distinct == DropDuplicates(nonnull, LAMBDA p : p)
         IN  [none |-> FALSE,
              rows |-> SeqMap(LAMBDA p : [game_id |-> p.game, fbref_match_id |-> p.game_id],
                              distinct)]
    ELSE None

\* lines 198-207
BuildFbrefMap(ps) ==
    IF "game" \in ps.cols /\ "game_id" \in ps.cols
    THEN LET pairs == SeqMap(LAMBDA r : [game |-> r.game, game_id |-> r.game_id], ps.rows)
             nonnull == SelectSeq(pairs, LAMBDA p : p.game # Null /\ p.game_id # Null)
             distinct == DropDuplicates(nonnull, LAMBDA p : p)
             keys == Sorted({p.game : p \in Range(distinct)})
             first(g) == SelectSeq(distinct, LAMBDA p : p.game = g)[1].game_id
         IN  [none |-> FALSE,
              rows |-> SeqMap(LAMBDA g : [game_id |-> g, fbref_match_id |-> first(g)], keys)]
    ELSE None

\* .fillna("").astype(str).str.lower() of a venue tag of the model
Lower(v) ==
    CASE v = Null -> ""
      [] v \in {"Home", "HOME"} -> "home"
      [] v \in {"Away", "AWAY"} -> "away"
      [] OTHER -> v

MatchesRequired == {"game_id", "team", "opponent", "venue", "date", "league", "season"}

\* lines 76-101 with the away-tagged row looked at before the home-tagged one
MatchRowAwayFirst(rows, game_id) ==
    LET group == SelectSeq(rows, LAMBDA r : r.game_id = game_id)
        row == group[1]
        home_row == SelectSeq(group, LAMBDA r : Lower(r.venue) = "home")
        away_row == SelectSeq(group, LAMBDA r : Lower(r.venue) = "away")
    IN  IF away_row # <<>>
        THEN [game_id |-> game_id, home_team |-> away_row[1].opponent,
              away_team |-> away_row[1].team]
        ELSE IF home_row # <<>>
        THEN [game_id |-> game_id, home_team |-> home_row[1].team,
              away_team |-> home_row[1].opponent]
        ELSE [game_id |-> game_id, home_team |-> row.team, away_team |-> row.opponent]

\* lines 76-101: the match row of the group of game_id
MatchRow(rows, game_id) ==
    LET group == SelectSeq(rows, LAMBDA r : r.game_id = game_id)
        row == group[1]
        home_row == SelectSeq(group, LAMBDA r : Lower(r.venue) = "home")
        away_row == SelectSeq(group, LAMBDA r : Lower(r.venue) = "away")
    IN  IF home_row # <<>>
        THEN [game_id |-> game_id, home_team |-> home_row[1].team,
              away_team |-> home_row[1].opponent]
        ELSE IF away_row # <<>>
        THEN [game_id |-> game_id, home_team |-> away_row[1].opponent,
              away_team |-> away_row[1].team]
        ELSE [game_id |-> game_id, home_team |-> row.team, away_team |-> row.opponent]

\* groupby("game_id"): the keys in sorted order, null keys dropped
GroupKeys(rows) == Sorted({r.game_id : r \in Range(rows)} \ {Null})

\* lines 104-105: the left join on game_id
MergeFbrefMap(match_rows, map_rows) ==
    LeftMerge(match_rows, map_rows,
              LAMBDA l, r : l.game_id = r.game_id,
              LAMBDA l, r : [game_id |-> l.game_id, home_team |-> l.home_team,
                             away_team |-> l.away_team,
                             fbref_match_id |-> r.fbref_match_id],
              LAMBDA l : [game_id |-> l.game_id, home_team |-> l.home_team,
                          away_team |-> l.away_team, fbref_match_id |-> Null])

\* pd.DataFrame([]) has no columns: merging it on "game_id" raises KeyError
_build_matches(sched, map) ==
    IF ~(MatchesRequired \subseteq sched.cols)
    THEN SystemExit("Schedule table missing columns")
    ELSE LET match_rows == SeqMap(LAMBDA g : MatchRow(sched.rows, g), GroupKeys(sched.rows))
         IN  IF ~map.none /\ map.rows # <<>>
             THEN IF match_rows = <<>> THEN Raised("KeyError: 'game_id'")
                  ELSE Returned(MergeFbrefMap(match_rows, map.rows))
             ELSE Returned(match_rows)

_build_teams(sched) ==
    Sorted(({r.team : r \in Range(sched.rows)} \cup {r.opponent : r \in Range(sched.rows)})
           \ {Null})

\* the coerced column col of df, all pd.NA when col is no column
CoercedColumn(df, col) ==
    IF col # NoColumn
    THEN _coerce_int(SeqMap(LAMBDA r : r[col], df.rows))
    ELSE [raised |-> FALSE, values |-> SeqMap(LAMBDA r : NaCell, df.rows)]

\* _build_team_match_stats keeping one row per (game_id, team)
BuildTeamMatchStatsDeduplicated(sched) ==
    LET gf_col == _first_existing_column(sched.cols, <<"gf", "goals_for", "goals">>)
        ga_col == _first_existing_column(sched.cols, <<"ga", "goals_against", "goals_allowed">>)
    IN  IF ~({"game_id", "team", "opponent", "venue"} \subseteq sched.cols)
        THEN SystemExit("Team schedule missing columns")
        ELSE LET gf == CoercedColumn(sched, gf_col)
                 ga == CoercedColumn(sched, ga_col)
             IN  IF gf.raised \/ ga.raised THEN Raised("TypeError: cannot safely cast")
                 ELSE Returned(DropDuplicates(
                         [i \in 1..Len(sched.rows) |->
                             [game_id |-> sched.rows[i].game_id, team |-> sched.rows[i].team,
                              opponent |-> sched.rows[i].opponent,
                              venue |-> sched.rows[i].venue,
                              goals_for |-> gf.values[i], goals_against |-> ga.values[i]]],
                         LAMBDA r : <<r.game_id, r.team>>))

_build_team_match_stats(sched) ==
    LET gf_col == _first_existing_column(sched.cols, <<"gf", "goals_for", "goals">>)
        ga_col == _first_existing_column(sched.cols, <<"ga", "goals_against", "goals_allowed">>)
    IN  IF ~({"game_id", "team", "opponent", "venue"} \subseteq sched.cols)
        THEN SystemExit("Team schedule missing columns")
        ELSE LET gf == CoercedColumn(sched, gf_col)
                 ga == CoercedColumn(sched, ga_col)
             IN  IF gf.raised \/ ga.raised THEN Raised("TypeError: cannot safely cast")
                 ELSE Returned([i \in 1..Len(sched.rows) |->
                         [game_id |-> sched.rows[i].game_id, team |-> sched.rows[i].team,
                          opponent |-> sched.rows[i].opponent, venue |-> sched.rows[i].venue,
                          goals_for |-> gf.values[i], goals_against |-> ga.values[i]]])

_build_players(ps) ==
    IF "player" \notin ps.cols THEN SystemExit("Player summary missing player column.")
    ELSE Returned(Sorted({r.player : r \in Range(ps.rows)} \ {Null}))

\* lines 217-219 without the drop_duplicates of line 220
BuildOpponentDfAllRows(sched) ==
    LET picked == SeqMap(LAMBDA r : [game_id |-> r.game_id, team |-> r.team,
                                     opponent |-> r.opponent], sched.rows)
    IN  SelectSeq(picked, LAMBDA r : r.game_id # Null /\ r.team # Null)

\* lines 217-220
BuildOpponentDf(sched) ==
    LET picked == SeqMap(LAMBDA r : [game_id |-> r.game_id, team |-> r.team,
                                     opponent |-> r.opponent], sched.rows)
        nonnull == SelectSeq(picked, LAMBDA r : r.game_id # Null /\ r.team # Null)
    IN  DropDuplicates(nonnull, LAMBDA r : <<r.game_id, r.team>>)

\* line 159: the left join on (game_id, team); a player summary with an opponent
\* column of its own comes out with opponent_x and opponent_y instead of opponent
MergeOpponent(ps_rows, opp_rows) ==
    LET joined(l, opponent) ==
            IF "opponent" \in DOMAIN l
            THEN [c \in (DOMAIN l \ {"opponent"}) \cup {"opponent_x", "opponent_y"} |->
                     IF c = "opponent_x" THEN l.opponent
                     ELSE IF c = "opponent_y" THEN opponent ELSE l[c]]
            ELSE [c \in DOMAIN l \cup {"opponent"} |->
                     IF c = "opponent" THEN opponent ELSE l[c]]
    IN  LeftMerge(ps_rows, opp_rows,
                  LAMBDA l, r : l.game_id = r.game_id /\ l.team = r.team,
                  LAMBDA l, r : joined(l, r.opponent),
                  LAMBDA l : joined(l, Null))

\* stats[keep] raises KeyError when a column of keep is no column of stats
_build_player_match_stats(ps, opp_rows) ==
    LET minutes_col == _first_existing_column(ps.cols, <<"min", "minutes">>)
    IN  IF ~({"game_id", "player", "team"} \subseteq ps.cols)
        THEN SystemExit("Player summary missing columns")
        ELSE LET stats == MergeOpponent(ps.rows, opp_rows)
                 minutes == CoercedColumn([cols |-> ps.cols, rows |-> stats], minutes_col)
             IN  IF minutes.raised THEN Raised("TypeError: cannot safely cast")
                 ELSE IF "opponent" \in ps.cols THEN Raised("KeyError: ['opponent'] not in index")
                 ELSE Returned([i \in 1..Len(stats) |->
                         [game_id |-> stats[i].game_id, player |-> stats[i].player,
                          team |-> stats[i].team, opponent |-> stats[i].opponent,
                          minutes |-> minutes.values[i]]])

-----------------------------------------------------------------------------
(* main *)

Tables == {"teams", "matches", "team_match_stats", "players", "player_match_stats"}

\* what main goes on to after a step that returned, exited or raised
After(result, next) ==
    IF result.exit THEN "aborted" ELSE IF result.raised THEN "crashed" ELSE next

\* lines 189-190
ReadSql ==
    /\ pc = "read_sql"
    /\ schedule' = fbref_team_match_schedule
    /\ player_summary' = fbref_player_match_summary
    /\ pc' = "check_game"
    /\ UNCHANGED <<fbref_team_match_schedule, fbref_player_match_summary, error, fbref_map,
                   schedule_prepped, player_prepped, matches, teams, team_match_stats,
                   players, opponent_df, player_match_stats, db, written, runs>>

\* main without the check of lines 192-196
CheckGameSkipped ==
    /\ pc = "check_game"
    /\ pc' = "fbref_map"
    /\ UNCHANGED <<fbref_team_match_schedule, fbref_player_match_summary, error, schedule,
                   player_summary, fbref_map, schedule_prepped, player_prepped, matches,
                   teams, team_match_stats, players, opponent_df, player_match_stats,
                   db, written, runs>>

\* lines 192-196
CheckGame ==
    /\ pc = "check_game"
    /\ LET result == IF "game" \in schedule.cols /\ "game" \notin player_summary.cols
                     THEN SystemExit("Player summary missing 'game' column")
                     ELSE Returned(<<>>)
       IN  /\ pc' = After(result, "fbref_map")
           /\ error' = result.error
    /\ UNCHANGED <<fbref_team_match_schedule, fbref_player_match_summary, schedule,
                   player_summary, fbref_map, schedule_prepped, player_prepped, matches,
                   teams, team_match_stats, players, opponent_df, player_match_stats,
                   db, written, runs>>

\* lines 198-207
FbrefMap ==
    /\ pc = "fbref_map"
    /\ fbref_map' = BuildFbrefMap(player_summary)
    /\ pc' = "prepare_schedule"
    /\ UNCHANGED <<fbref_team_match_schedule, fbref_player_match_summary, error, schedule,
                   player_summary, schedule_prepped, player_prepped, matches, teams,
                   team_match_stats, players, opponent_df, player_match_stats, db,
                   written, runs>>

\* line 209
PrepareSchedule ==
    /\ pc = "prepare_schedule"
    /\ LET result == _prepare_schedule(schedule)
       IN  /\ schedule_prepped' = IF result.exit THEN schedule_prepped ELSE result.value
           /\ pc' = After(result, "prepare_player_summary")
           /\ error' = result.error
    /\ UNCHANGED <<fbref_team_match_schedule, fbref_player_match_summary, schedule,
                   player_summary, fbref_map, player_prepped, matches, teams,
                   team_match_stats, players, opponent_df, player_match_stats, db,
                   written, runs>>

\* line 210
PreparePlayerSummary ==
    /\ pc = "prepare_player_summary"
    /\ LET result == _prepare_player_summary(player_summary)
       IN  /\ player_prepped' = IF result.exit THEN player_prepped ELSE result.value
           /\ pc' = After(result, "build_matches")
           /\ error' = result.error
    /\ UNCHANGED <<fbref_team_match_schedule, fbref_player_match_summary, schedule,
                   player_summary, fbref_map, schedule_prepped, matches, teams,
                   team_match_stats, players, opponent_df, player_match_stats, db,
                   written, runs>>

\* line 212
BuildMatches ==
    /\ pc = "build_matches"
    /\ LET result == _build_matches(schedule_prepped, fbref_map)
       IN  /\ matches' = IF result.exit \/ result.raised THEN matches ELSE result.value
           /\ pc' = After(result, "build_teams")
           /\ error' = result.error
    /\ UNCHANGED <<fbref_team_match_schedule, fbref_player_match_summary, schedule,
                   player_summary, fbref_map, schedule_prepped, player_prepped, teams,
                   team_match_stats, players, opponent_df, player_match_stats, db,
                   written, runs>>

\* line 213 with the teams frame appended as soon as it is built
BuildTeamsAndAppend ==
    /\ pc = "build_teams"
    /\ teams' = SeqMap(LAMBDA t : [name |-> t], _build_teams(schedule_prepped))
    /\ db' = [db EXCEPT !["teams"] = @ \o teams']
    /\ written' = written \cup {"teams"}
    /\ pc' = "build_team_match_stats"
    /\ UNCHANGED <<fbref_team_match_schedule, fbref_player_match_summary, error, schedule,
                   player_summary, fbref_map, schedule_prepped, player_prepped, matches,
                   team_match_stats, players, opponent_df, player_match_stats, runs>>

\* line 213
BuildTeams ==
    /\ pc = "build_teams"
    /\ teams' = SeqMap(LAMBDA t : [name |-> t], _build_teams(schedule_prepped))
    /\ pc' = "build_team_match_stats"
    /\ UNCHANGED <<fbref_team_match_schedule, fbref_player_match_summary, error, schedule,
                   player_summary, fbref_map, schedule_prepped, player_prepped, matches,
                   team_match_stats, players, opponent_df, player_match_stats, db,
                   written, runs>>

\* line 214
BuildTeamMatchStats ==
    /\ pc = "build_team_match_stats"
    /\ LET result == _build_team_match_stats(schedule_prepped)
       IN  /\ team_match_stats' =
                  IF result.exit \/ result.raised THEN team_match_stats ELSE result.value
           /\ pc' = After(result, "build_players")
           /\ error' = result.error
    /\ UNCHANGED <<fbref_team_match_schedule, fbref_player_match_summary, schedule,
                   player_summary, fbref_map, schedule_prepped, player_prepped, matches,
                   teams, players, opponent_df, player_match_stats, db, written, runs>>

\* line 216
BuildPlayers ==
    /\ pc = "build_players"
    /\ LET result == _build_players(player_prepped)
       IN  /\ players' = IF result.exit THEN players
                         ELSE SeqMap(LAMBDA p : [name |-> p], result.value)
           /\ pc' = After(result, "opponent_df")
           /\ error' = result.error
    /\ UNCHANGED <<fbref_team_match_schedule, fbref_player_match_summary, schedule,
                   player_summary, fbref_map, schedule_prepped, player_prepped, matches,
                   teams, team_match_stats, opponent_df, player_match_stats, db,
                   written, runs>>

\* lines 217-220
OpponentDf ==
    /\ pc = "opponent_df"
    /\ opponent_df' = BuildOpponentDf(schedule_prepped)
    /\ pc' = "build_player_match_stats"
    /\ UNCHANGED <<fbref_team_match_schedule, fbref_player_match_summary, error, schedule,
                   player_summary, fbref_map, schedule_prepped, player_prepped, matches,
                   teams, team_match_stats, players, player_match_stats, db, written,
                   runs>>

\* line 221
BuildPlayerMatchStats ==
    /\ pc = "build_player_match_stats"
    /\ LET result == _build_player_match_stats(player_prepped, opponent_df)
       IN  /\ player_match_stats' =
                  IF result.exit \/ result.raised THEN player_match_stats ELSE result.value
           /\ pc' = After(result, "to_sql_teams")
           /\ error' = result.error
    /\ UNCHANGED <<fbref_team_match_schedule, fbref_player_match_summary, schedule,
                   player_summary, fbref_map, schedule_prepped, player_prepped, matches,
                   teams, team_match_stats, players, opponent_df, db, written, runs>>

\* to_sql appending only the rows the table does not hold yet
AppendNewRows(table, frame) ==
    /\ db' = [db EXCEPT ![table] = @ \o SelectSeq(frame, LAMBDA r : r \notin Range(@))]
    /\ written' = written \cup {table}

\* frame.to_sql(table, engine, if_exists="append", index=False)
Append_to_sql(table, frame) ==
    /\ db' = [db EXCEPT ![table] = @ \o frame]
    /\ written' = written \cup {table}

\* line 223
ToSqlTeams ==
    /\ pc = "to_sql_teams"
    /\ Append_to_sql("teams", teams)
    /\ pc' = "to_sql_matches"
    /\ UNCHANGED <<fbref_team_match_schedule, fbref_player_match_summary, error, schedule,
                   player_summary, fbref_map, schedule_prepped, player_prepped, matches,
                   teams, team_match_stats, players, opponent_df, player_match_stats,
                   runs>>

\* line 224
ToSqlMatches ==
    /\ pc = "to_sql_matches"
    /\ Append_to_sql("matches", matches)
    /\ pc' = "to_sql_team_match_stats"
    /\ UNCHANGED <<fbref_team_match_schedule, fbref_player_match_summary, error, schedule,
                   player_summary, fbref_map, schedule_prepped, player_prepped, matches,
                   teams, team_match_stats, players, opponent_df, player_match_stats,
                   runs>>

\* line 225
ToSqlTeamMatchStats ==
    /\ pc = "to_sql_team_match_stats"
    /\ Append_to_sql("team_match_stats", team_match_stats)
    /\ pc' = "to_sql_players"
    /\ UNCHANGED <<fbref_team_match_schedule, fbref_player_match_summary, error, schedule,
                   player_summary, fbref_map, schedule_prepped, player_prepped, matches,
                   teams, team_match_stats, players, opponent_df, player_match_stats,
                   runs>>

\* line 226
ToSqlPlayers ==
    /\ pc = "to_sql_players"
    /\ Append_to_sql("players", players)
    /\ pc' = "to_sql_player_match_stats"
    /\ UNCHANGED <<fbref_team_match_schedule, fbref_player_match_summary, error, schedule,
                   player_summary, fbref_map, schedule_prepped, player_prepped, matches,
                   teams, team_match_stats, players, opponent_df, player_match_stats,
                   runs>>

\* lines 227-231: the last append, after which main returns
ToSqlPlayerMatchStats ==
    /\ pc = "to_sql_player_match_stats"
    /\ Append_to_sql("player_match_stats", player_match_stats)
    /\ pc' = "done"
    /\ runs' = runs + 1
    /\ UNCHANGED <<fbref_team_match_schedule, fbref_player_match_summary, error, schedule,
                   player_summary, fbref_map, schedule_prepped, player_prepped, matches,
                   teams, team_match_stats, players, opponent_df, player_match_stats>>

\* the script is run again, the raw tables unchanged: a new process, whose
\* frames start empty
Rerun ==
    /\ pc = "done"
    /\ runs < MaxRuns
    /\ pc' = "read_sql"
    /\ schedule' = EmptyFrame /\ player_summary' = EmptyFrame
    /\ fbref_map' = None
    /\ schedule_prepped' = EmptyFrame /\ player_prepped' = EmptyFrame
    /\ matches' = <<>> /\ teams' = <<>> /\ team_match_stats' = <<>>
    /\ players' = <<>> /\ opponent_df' = <<>> /\ player_match_stats' = <<>>
    /\ written' = {}
    /\ UNCHANGED <<fbref_team_match_schedule, fbref_player_match_summary, error, db, runs>>

-----------------------------------------------------------------------------
(* The raw tables *)

SeqsUpTo(D, n) == UNION {[1..k -> D] : k \in 0..n}

ScheduleRow(game, game_id, team, opponent, venue, gf, ga) ==
    [game |-> game, game_id |-> game_id, team |-> team, opponent |-> opponent,
     venue |-> venue, gf |-> gf, goals_for |-> IntCell(9), ga |-> ga]

PlayerRow(game, game_id, player, team, min) ==
    [game |-> game, game_id |-> game_id, player |-> player, team |-> team,
     opponent |-> "Arsenal", min |-> min]

\* a raw table with the columns cols: each row holds a value per column
RawTable(cols, rows) ==
    [cols |-> cols, rows |-> SeqMap(LAMBDA r : [c \in DOMAIN r \cap cols |-> r[c]], rows)]

ScheduleRequired == {"team", "opponent", "venue", "date", "league", "season"}
GameColumns == {"game", "game_id"}
ScheduleColumns == {"game"} \cup ScheduleRequired \cup {"gf", "ga"}
PlayerColumns == {"game", "game_id", "player", "team", "min"}

BaseScheduleRow ==
    ScheduleRow("g1", "f1", "Arsenal", "Tottenham", "home", StrCell(<<"2">>), IntCell(1))
BasePlayerRow == PlayerRow("g1", "f1", "X", "Arsenal", IntCell(90))

Cells ==
    {NaCell, IntCell(7), IntCell(0), FloatCell(2, 5), StrCell(<<"7">>), StrCell(<<>>),
     StrCell(<<"N", "/", "A">>), StrCell(<<"2", ".", "5">>)}

Venues == {"Home", "away", "neutral", Null}

Fixtures ==
    {<<"Arsenal", "Tottenham">>, <<"Tottenham", "Arsenal">>,
     <<"Tottenham", "Tottenham Hotspur">>}

TeamNames == DOMAIN TEAM_NAME_FIXUPS \cup {TEAM_NAME_FIXUPS[k] : k \in DOMAIN TEAM_NAME_FIXUPS}
                \cup {"Arsenal"}

\* schema drift: either table under any of its game columns, the schedule short
\* of up to MaxMissing required columns, the player summary of player or team or
\* with an opponent column of its own
InitColumns ==
    \E g \in SUBSET GameColumns, m \in SUBSET ScheduleRequired,
       h \in SUBSET GameColumns, o \in SUBSET {"player", "team", "opponent"},
       rows \in SeqsUpTo({BaseScheduleRow}, 1) :
        /\ Cardinality(m) <= MaxMissing
        /\ fbref_team_match_schedule =
               RawTable(g \cup (ScheduleRequired \ m) \cup {"gf", "ga"}, rows)
        /\ fbref_player_match_summary = RawTable(h \cup o \cup {"min"}, <<BasePlayerRow>>)

\* schedules of up to MaxSchedRows rows, of any games, venue tags and fixtures
InitSchedules ==
    \E rows \in SeqsUpTo({ScheduleRow(g, Null, f[1], f[2], v, IntCell(1), IntCell(0)) :
                             g \in {"g1", "g2"}, v \in Venues, f \in Fixtures},
                         MaxSchedRows) :
        /\ fbref_team_match_schedule = RawTable(ScheduleColumns, rows)
        /\ fbref_player_match_summary =
               RawTable(PlayerColumns,
                        <<BasePlayerRow, PlayerRow("g1", "f2", "Y", "Tottenham", IntCell(45))>>)

\* player summaries of up to MaxPlayerRows rows against two-row schedules
InitPlayers ==
    \E srows \in [1..2 -> {ScheduleRow(g, Null, t, o, "home", IntCell(1), IntCell(0)) :
                              g \in {"g1", Null}, t \in {"Tottenham", "Tottenham Hotspur", Null},
                              o \in {"Arsenal", Null}}],
       prows \in SeqsUpTo({PlayerRow(g, "f1", "X", t, IntCell(90)) :
                              g \in {"g1", Null}, t \in {"Tottenham", "Arsenal", Null}},
                          MaxPlayerRows) :
        /\ fbref_team_match_schedule = RawTable(ScheduleColumns, srows)
        /\ fbref_player_match_summary = RawTable(PlayerColumns, prows)

\* the values of the numeric columns, under each alias of goals-for and with
\* the columns absent
InitCells ==
    \E cells \in SeqsUpTo(Cells, MaxSchedRows),
       a \in {{"gf", "ga"}, {"goals_for", "ga"}, {"gf", "goals_for"}, {}},
       b \in SUBSET {"min"} :
        /\ fbref_team_match_schedule =
               RawTable({"game"} \cup ScheduleRequired \cup a,
                        SeqMap(LAMBDA c : ScheduleRow("g1", Null, "Arsenal", "Tottenham",
                                                      "home", c, StrCell(<<"1">>)), cells))
        /\ fbref_player_match_summary =
               RawTable({"game", "player", "team"} \cup b,
                        SeqMap(LAMBDA c : PlayerRow("g1", Null, "X", "Arsenal", c), cells))

\* every team name the fixup table knows, in every team column
InitNames ==
    \E t \in TeamNames, o \in TeamNames :
        /\ fbref_team_match_schedule =
               RawTable(ScheduleColumns,
                        <<ScheduleRow("g1", Null, t, o, "home", IntCell(1), IntCell(0))>>)
        /\ fbref_player_match_summary =
               RawTable(PlayerColumns, <<PlayerRow("g1", "f1", "X", o, IntCell(90))>>)

\* the state in which a process running main starts
InitMain ==
    /\ pc = "read_sql"
    /\ error = ""
    /\ schedule = EmptyFrame /\ player_summary = EmptyFrame
    /\ fbref_map = None
    /\ schedule_prepped = EmptyFrame /\ player_prepped = EmptyFrame
    /\ matches = <<>> /\ teams = <<>> /\ team_match_stats = <<>>
    /\ players = <<>> /\ opponent_df = <<>> /\ player_match_stats = <<>>
    /\ db = [t \in Tables |-> <<>>]
    /\ written = {}
    /\ runs = 0

Init ==
    /\ InitColumns \/ InitSchedules \/ InitPlayers \/ InitCells \/ InitNames
    /\ InitMain

InitRuns ==
    /\ InitColumns \/ InitCells
    /\ InitMain

Next ==
    \/ ReadSql \/ CheckGame \/ FbrefMap \/ PrepareSchedule \/ PreparePlayerSummary
    \/ BuildMatches \/ BuildTeams \/ BuildTeamMatchStats \/ BuildPlayers \/ OpponentDf
    \/ BuildPlayerMatchStats
    \/ ToSqlTeams \/ ToSqlMatches \/ ToSqlTeamMatchStats \/ ToSqlPlayers
    \/ ToSqlPlayerMatchStats

NextRuns == Next \/ Rerun

\* one run of main
Spec == Init /\ [][Next]_vars

\* up to MaxRuns runs of main against the same raw tables
SpecRuns == InitRuns /\ [][NextRuns]_vars

-----------------------------------------------------------------------------
(* What the properties speak of *)

Steps ==
    <<"read_sql", "check_game", "fbref_map", "prepare_schedule", "prepare_player_summary",
      "build_matches", "build_teams", "build_team_match_stats", "build_players",
      "opponent_df", "build_player_match_stats", "to_sql_teams", "to_sql_matches",
      "to_sql_team_match_stats", "to_sql_players", "to_sql_player_match_stats", "done">>

Position(step) == CHOOSE i \in 1..Len(Steps) : Steps[i] = step

\* the current run has gone through step and is still going, or is done
Completed(step) == pc \in Range(Steps) /\ Position(pc) > Position(step)

Terminated == pc \in {"aborted", "crashed", "done"}

RawSchedule == fbref_team_match_schedule
RawPlayers == fbref_player_match_summary

\* the game identifier of a raw row: its game, or its game_id when it has no game
GameIdentifier(r) == IF "game" \in DOMAIN r THEN r.game ELSE r.game_id

HomeTags == {"home", "Home", "HOME"}
AwayTags == {"away", "Away", "AWAY"}

Count(seq, P(_)) == Cardinality({i \in 1..Len(seq) : P(seq[i])})

-----------------------------------------------------------------------------
(* C1: the matches frame _build_matches returns holds exactly one row for each *)
(* game identifier of the raw schedule, and no other row, whatever the rows,   *)
(* their venue tags and their order, with or without an external-id mapping.   *)
C1_OneMatchPerGame ==
    Completed("build_matches") =>
        LET ids == {GameIdentifier(r) : r \in Range(RawSchedule.rows)} \ {Null}
        IN  /\ \A g \in ids : Count(matches, LAMBDA m : m.game_id = g) = 1
            /\ Len(matches) = Cardinality(ids)

\* two rows of one game, neither with a recognizable venue tag, and a mapping attached
C1_Witness ==
    /\ Completed("build_matches")
    /\ ~fbref_map.none /\ fbref_map.rows # <<>>
    /\ Len(RawSchedule.rows) = 2
    /\ GameIdentifier(RawSchedule.rows[1]) = GameIdentifier(RawSchedule.rows[2])
    /\ \A i \in 1..2 : RawSchedule.rows[i].venue \notin HomeTags \cup AwayTags
    /\ Len(matches) = 1
    /\ matches[1].fbref_match_id = "f1"

(* C2: in every match row, home and away come from a home-tagged row of the    *)
(* game's group when there is one, else from an away-tagged row when there is  *)
(* one, else from some row of the group, wherever the rows stand in the table. *)
C2_HomeAwayPriority ==
    Completed("build_matches") =>
        \A i \in 1..Len(matches) :
            LET m == matches[i]
                group == {r \in Range(schedule_prepped.rows) : r.game_id = m.game_id}
                home == {r \in group : r.venue \in HomeTags}
                away == {r \in group : r.venue \in AwayTags}
            IN  /\ home # {} =>
                    \E r \in home : m.home_team = r.team /\ m.away_team = r.opponent
                /\ home = {} /\ away # {} =>
                    \E r \in away : m.away_team = r.team /\ m.home_team = r.opponent
                /\ home = {} /\ away = {} =>
                    \E r \in group : m.home_team = r.team /\ m.away_team = r.opponent

\* the away row (B, A) stands before the home row (A, B), and home_team is A
C2_Witness ==
    /\ Completed("build_matches")
    /\ Len(schedule_prepped.rows) = 2
    /\ LET a == schedule_prepped.rows[1]
           h == schedule_prepped.rows[2]
       IN  /\ a.game_id = h.game_id
           /\ a.venue \in AwayTags /\ h.venue \in HomeTags
           /\ h.team = "Arsenal" /\ h.opponent = "Tottenham Hotspur"
           /\ a.team = "Tottenham Hotspur" /\ a.opponent = "Arsenal"
           /\ Len(matches) = 1
           /\ matches[1].home_team = "Arsenal" /\ matches[1].away_team = "Tottenham Hotspur"

(* C3: player_match_stats holds one row per raw player-summary row, in order;  *)
(* its opponent is an opponent the schedule records for the row's game         *)
(* identifier and canonical team, and null when the schedule has no such row.  *)
C3_PlayerOpponentJoin ==
    Completed("build_player_match_stats") =>
        /\ Len(player_match_stats) = Len(RawPlayers.rows)
        /\ \A i \in 1..Len(player_match_stats) :
            LET p == RawPlayers.rows[i]
                out == player_match_stats[i]
                recorded == {r \in Range(RawSchedule.rows) :
                                /\ GameIdentifier(r) # Null /\ r.team # Null
                                /\ GameIdentifier(r) = GameIdentifier(p)
                                /\ Replace(r.team) = Replace(p.team)}
            IN  /\ out.game_id = GameIdentifier(p)
                /\ out.player = p.player
                /\ out.team = Replace(p.team)
                /\ IF recorded = {} THEN out.opponent = Null
                   ELSE \E r \in recorded : out.opponent = Replace(r.opponent)

\* the schedule holds two rows for the player row's (game, team), under two raw names
C3_Witness ==
    /\ Completed("build_player_match_stats")
    /\ Len(RawPlayers.rows) = 1 /\ Len(RawSchedule.rows) = 2
    /\ RawPlayers.rows[1].team = "Tottenham"
    /\ RawSchedule.rows[1].team = "Tottenham Hotspur"
    /\ RawSchedule.rows[2].team = "Tottenham"
    /\ \A i \in 1..2 : GameIdentifier(RawSchedule.rows[i]) = GameIdentifier(RawPlayers.rows[1])
    /\ GameIdentifier(RawPlayers.rows[1]) # Null
    /\ RawSchedule.rows[1].opponent = "Arsenal"
    /\ Len(player_match_stats) = 1
    /\ player_match_stats[1].opponent = "Arsenal"

(* C4 as stated: every (game identifier, team name) pair of the schedule is in *)
(* exactly one row of team_match_stats.                                        *)
C4_OneRowPerPair ==
    Completed("build_team_match_stats") =>
        \A r \in Range(schedule_prepped.rows) :
            Count(team_match_stats,
                  LAMBDA t : t.game_id = r.game_id /\ t.team = r.team) = 1

(* C4 as amended: team_match_stats holds one row per raw schedule row, in      *)
(* order, with that row's game identifier, canonical team and opponent and its *)
(* venue; a (game identifier, team) pair is in as many rows as the schedule    *)
(* has rows for it.                                                            *)
C4_OneRowPerScheduleRow ==
    Completed("build_team_match_stats") =>
        /\ Len(team_match_stats) = Len(RawSchedule.rows)
        /\ \A i \in 1..Len(team_match_stats) :
            LET r == RawSchedule.rows[i]
                out == team_match_stats[i]
            IN  /\ out.game_id = GameIdentifier(r)
                /\ out.team = Replace(r.team)
                /\ out.opponent = Replace(r.opponent)
                /\ out.venue = r.venue
                /\ Count(team_match_stats,
                         LAMBDA t : t.game_id = out.game_id /\ t.team = out.team)
                   = Count(RawSchedule.rows,
                           LAMBDA x : GameIdentifier(x) = GameIdentifier(r)
                                      /\ Replace(x.team) = Replace(r.team))

\* two raw rows of one game whose team names canonicalize to one name
C4_Witness ==
    /\ Completed("build_team_match_stats")
    /\ Len(RawSchedule.rows) = 2
    /\ GameIdentifier(RawSchedule.rows[1]) = GameIdentifier(RawSchedule.rows[2])
    /\ RawSchedule.rows[1].team = "Tottenham"
    /\ RawSchedule.rows[2].team = "Tottenham Hotspur"
    /\ Len(team_match_stats) = 2
    /\ team_match_stats[1].team = team_match_stats[2].team

(* C5: a run that ends in a structural failure has appended to no output       *)
(* table: every check of main is over before its first append.                 *)
C5_NoPartialWrite ==
    /\ pc = "aborted" => written = {} /\ \A t \in Tables : db[t] = <<>>
    /\ written # {} =>
           pc \in {"to_sql_matches", "to_sql_team_match_stats", "to_sql_players",
                   "to_sql_player_match_stats", "done"}

\* the last structural check fails, the schedule's frames built already
C5_Witness ==
    /\ pc = "aborted"
    /\ error = "Player summary missing columns"
    /\ teams # <<>> /\ matches # <<>> /\ team_match_stats # <<>>
    /\ written = {}

\* a required column is absent from a raw table under each of its names
ColumnAbsent ==
    \/ GameColumns \cap RawSchedule.cols = {}
    \/ ~(ScheduleRequired \subseteq RawSchedule.cols)
    \/ GameColumns \cap RawPlayers.cols = {}
    \/ ~({"player", "team"} \subseteq RawPlayers.cols)

\* the schedule names its game identifier "game" and the player summary does not
GameMisaligned == "game" \in RawSchedule.cols /\ "game" \notin RawPlayers.cols

C7_CoerceIntNeverRaises ==
    /\ error # "TypeError: cannot safely cast"
    /\ Completed("build_team_match_stats") =>
        \A i \in 1..Len(team_match_stats) :
            LET r == schedule_prepped.rows[i]
                out == team_match_stats[i].goals_for
                source == _first_existing_column(schedule_prepped.cols,
                                                 <<"gf", "goals_for", "goals">>)
            IN  IF source = NoColumn THEN out = NaCell
                ELSE /\ r[source] = StrCell(<<"7">>) => out = IntCell(7)
                     /\ r[source].kind = "int" => out = r[source]
                     /\ r[source] \in {StrCell(<<>>), StrCell(<<"N", "/", "A">>), NaCell} =>
                            out = NaCell

(* C8: after preparation every team and opponent of the schedule and every    *)
(* team of the player summary that was a key of TEAM_NAME_FIXUPS is its        *)
(* canonical name, every other one is unchanged, none is a key, fixing again   *)
(* changes nothing, and nothing has been grouped or joined before.             *)
Canonicalized(raw, out) ==
    /\ raw \in DOMAIN TEAM_NAME_FIXUPS => out = TEAM_NAME_FIXUPS[raw]
    /\ raw \notin DOMAIN TEAM_NAME_FIXUPS => out = raw
    /\ raw = "Nott'ham Forest" => out = "Nottingham Forest"
    /\ raw = "Arsenal" => out = "Arsenal"
    /\ out \notin DOMAIN TEAM_NAME_FIXUPS

C8_TeamNamesCanonical ==
    Completed("prepare_player_summary") =>
        /\ \A i \in 1..Len(RawSchedule.rows) :
            \A c \in {"team", "opponent"} \cap RawSchedule.cols :
                Canonicalized(RawSchedule.rows[i][c], schedule_prepped.rows[i][c])
        /\ \A i \in 1..Len(RawPlayers.rows) :
            \A c \in {"team"} \cap RawPlayers.cols :
                Canonicalized(RawPlayers.rows[i][c], player_prepped.rows[i][c])
        /\ _apply_team_name_fixes(schedule_prepped, {"team", "opponent"}) = schedule_prepped
        /\ _apply_team_name_fixes(player_prepped, {"team"}) = player_prepped
        /\ pc = "build_matches" =>
               /\ matches = <<>> /\ teams = <<>> /\ team_match_stats = <<>>
               /\ opponent_df = <<>> /\ player_match_stats = <<>>

\* a fixup key as team, Arsenal as opponent
C8_Witness ==
    /\ Completed("prepare_player_summary")
    /\ {"team", "opponent"} \subseteq RawSchedule.cols /\ "team" \in RawPlayers.cols
    /\ Len(RawSchedule.rows) = 1 /\ Len(RawPlayers.rows) = 1
    /\ RawSchedule.rows[1].team = "Nott'ham Forest"
    /\ RawSchedule.rows[1].opponent = "Arsenal"
    /\ schedule_prepped.rows[1].team = "Nottingham Forest"
    /\ schedule_prepped.rows[1].opponent = "Arsenal"
    /\ player_prepped.rows[1].team = "Arsenal"

(* C9: in every match row whose home_team and away_team are both non-null,     *)
(* home_team differs from away_team.                                           *)
C9_HomeDiffersFromAway ==
    Completed("build_matches") =>
        \A i \in 1..Len(matches) :
            matches[i].home_team # Null /\ matches[i].away_team # Null =>
                matches[i].home_team # matches[i].away_team

(* C10: each run that completes appends its frames once to each of the five    *)
(* output tables, so after n runs against the same raw tables every output     *)
(* table is the frame of one run n times over.                                 *)
Frame(table) ==
    CASE table = "teams" -> teams
      [] table = "matches" -> matches
      [] table = "team_match_stats" -> team_match_stats
      [] table = "players" -> players
      [] table = "player_match_stats" -> player_match_stats

Times(frame, n) ==
    LET F[k \in 0..n] == IF k = 0 THEN <<>> ELSE F[k - 1] \o frame
    IN  F[n]

C10_RunsAppendAgain ==
    pc = "done" =>
        \A t \in Tables :
            /\ db[t] = Times(Frame(t), runs)
            /\ Len(db[t]) = runs * Len(Frame(t))

\* the second run is over and every row of the first is there twice
C10_Witness ==
    /\ pc = "done"
    /\ runs = 2
    /\ \A t \in Tables : Len(Frame(t)) >= 1 /\ db[t] = Frame(t) \o Frame(t)

====
